---------------------------- MODULE Spec2Model ----------------------------
(***************************************************************************)
(* Model of DynamicResourceGraph (src/updated_h4d.py): a complete directed *)
(* graph whose nodes hold people/cars counts and whose edges hold          *)
(* capacity, flow and a list of cars in transit.                           *)
(*                                                                         *)
(* Numbers.  people, cars, flow and the capacities are Python ints and are *)
(* modelled as integers.  travel_time and car positions are Python floats. *)
(* A float is modelled as a binary floating point number with MantissaBits *)
(* significant bits and round-to-nearest-even, stored as an integer count  *)
(* of 1/One (One = 2^FracBits); MantissaBits is odd like IEEE double's 53, *)
(* so that 2/3 is rounded down as it is in the program.                    *)
(***************************************************************************)
EXTENDS Integers, Sequences, FiniteSets, TLC

VARIABLES nodes,    \* self.graph.nodes: node id -> [people, cars, max_capacity]
          edges,    \* self.graph.edges: <<u, v>> -> edge attributes
          last,     \* the last call: operation, arguments, exception raised
          ops,      \* number of calls made since construction
          moved,    \* history: people transferred from u to v per edge since the last reset
          waited    \* history: per car, sum of time_elapsed passed since it was appended

vars == <<nodes, edges, last, ops, moved, waited>>

-----------------------------------------------------------------------------
(* Bounds of the exploration *)
MaxNodes == 3       \* node counts 1..MaxNodes
MaxDistance == 2    \* distances drawn from 1..MaxDistance (the program: 1..9)
MaxPathLen == 4     \* paths of 2..MaxPathLen node ids
MaxCars == 2        \* cars_amount in 0..MaxCars
MaxOps == 3         \* calls per behaviour
MantissaBits == 5   \* significant bits of the modelled floats
MaxTotal == 7       \* totals of people and of cars passed to the constructor: 0..MaxTotal

(* Values of the example usage *)
y == 100
z == 20
node_max == 50
node_edge == 30
dcNum == 3          \* distance_constant = 1.5 = dcNum / dcDen
dcDen == 2
people_to_move == 10

-----------------------------------------------------------------------------
(* Floating point *)
RECURSIVE Pow2(_)
Pow2(n) == IF n = 0 THEN 1 ELSE 2 * Pow2(n - 1)

FracBits == MantissaBits + 2
One == Pow2(FracBits)

\* round-half-even of the rational a / b to an integer
RoundHalfEven(a, b) ==
    LET f == a \div b
        r == a % b
    IN  IF 2 * r < b THEN f
        ELSE IF 2 * r > b THEN f + 1
        ELSE IF f % 2 = 0 THEN f ELSE f + 1

\* the exponent k >= 0 with num / (den * 2^k) < 2^MantissaBits
RECURSIVE Exponent(_, _, _)
Exponent(num, den, k) ==
    IF num < den * Pow2(MantissaBits + k) THEN k ELSE Exponent(num, den, k + 1)

\* the float nearest to num / den (both in units of 1/One, num >= 0, den > 0)
Float(num, den) ==
    LET k == Exponent(num, den, 0)
    IN  RoundHalfEven(num, den * Pow2(k)) * Pow2(k)

FloatMul(a, b) == Float(a * b, One)
FloatDiv(a, b) == Float(a * One, b)
FloatAdd(a, b) == Float(a + b, 1)

-----------------------------------------------------------------------------
(* Inputs of the calls *)
NodeIds == 0 .. MaxNodes - 1                \* ids passed by callers; some are no node when x < MaxNodes
Paths == UNION {[1 .. n -> NodeIds] : n \in 2 .. MaxPathLen}
ShortPaths == [1 .. 2 -> NodeIds]
PeopleAmounts == {0, people_to_move, 2 * people_to_move, node_edge + people_to_move}
CarsAmounts == 0 .. MaxCars
TimesElapsed == {0, One \div 2, 5 * (One \div 2)}     \* 0, 0.5 and 2.5
Deltas == {-people_to_move, people_to_move}
CarsDeltas == {-MaxCars, 0, MaxCars}

NoArgs == [path |-> <<>>, people_amount |-> 0, cars_amount |-> 0, time_elapsed |-> 0, node |-> 0,
           x |-> 0, y |-> 0, z |-> 0]
Call(op, args, err, at, i) == [op |-> op, args |-> args, err |-> err, at |-> at, i |-> i]

-----------------------------------------------------------------------------
(* initialize_graph *)
EdgeSet_with_loops(x) == (0 .. x - 1) \X (0 .. x - 1)

EdgeSet(x) == {e \in (0 .. x - 1) \X (0 .. x - 1) : e[1] # e[2]}

\* np.random.randint(1, 10) of the draw made for edge (i, j), for one state of the generator
randint(seed, x, i, j) == 1 + ((seed + i * x + j) % MaxDistance)

travel_time_of(distance) == Float(distance * One * dcNum, dcDen)

\* Python's a // b for b # 0
floor_div(a, b) == IF b > 0 THEN a \div b ELSE (-a) \div (-b)

initialize_nodes_with(x, total_people, total_cars) ==
    [node \in 0 .. x - 1 |->
        [people |-> floor_div(total_people, x), cars |-> floor_div(total_cars, x),
         max_capacity |-> node_max]]

initialize_nodes(x) == initialize_nodes_with(x, y, z)

initialize_edges(x, seed) ==
    [e \in EdgeSet(x) |->
        LET distance == randint(seed, x, e[1], e[2])
        IN  [max_capacity |-> node_edge, current_capacity |-> node_edge,
             distance |-> distance, travel_time |-> travel_time_of(distance),
             flow |-> 0, cars |-> <<>>]]

Init ==
    \E x \in 1 .. MaxNodes, seed \in 0 .. MaxDistance - 1 :
        /\ nodes = initialize_nodes(x)
        /\ edges = initialize_edges(x, seed)
        /\ last = Call("init", NoArgs, "none", <<>>, 0)
        /\ ops = 0
        /\ moved = [e \in EdgeSet(x) |-> 0]
        /\ waited = [e \in EdgeSet(x) |-> <<>>]

-----------------------------------------------------------------------------
(* update_resource_level: the two += of lines 36-37 on a node that exists *)
update_resource_level_capped(ns, node, people_amount, cars_amount) ==
    LET cap(n) == IF n > ns[node].max_capacity THEN ns[node].max_capacity ELSE n
    IN  [ns EXCEPT ![node].people = cap(@ + people_amount),
                   ![node].cars = cap(@ + cars_amount)]

update_resource_level_people_only(ns, node, people_amount, cars_amount) ==
    [ns EXCEPT ![node].people = @ + people_amount]

update_resource_level_clamped(ns, node, people_amount, cars_amount) ==
    LET floor(n) == IF n < 0 THEN 0 ELSE n
    IN  [ns EXCEPT ![node].people = floor(@ + people_amount),
                   ![node].cars = floor(@ + cars_amount)]

update_resource_level_gain_only(ns, node, people_amount, cars_amount) ==
    [ns EXCEPT ![node].people = IF people_amount > 0 THEN @ + people_amount ELSE @,
               ![node].cars = IF cars_amount > 0 THEN @ + cars_amount ELSE @]

update_resource_level(ns, node, people_amount, cars_amount) ==
    [ns EXCEPT ![node].people = @ + people_amount,
               ![node].cars = @ + cars_amount]

(* adjust_edge_capacities *)
resource_availability_floored(e) ==
    IF e.max_capacity - e.flow < 0 THEN 0 ELSE e.max_capacity - e.flow

resource_availability_of_current(e) == e.current_capacity - e.flow

resource_availability(e) == e.max_capacity - e.flow

adjust_edge_capacities(es) ==
    [e \in DOMAIN es |-> [es[e] EXCEPT !.current_capacity = resource_availability(es[e])]]

(* move_resources *)
new_car_id_from_zero(cs) == Len(cs)

new_car_id(cs) == Len(cs) + 1

RECURSIVE append_cars_but_one(_, _)
append_cars_but_one(cs, cars_amount) ==
    IF cars_amount <= 1 THEN cs
    ELSE append_cars_but_one(Append(cs, [car_id |-> Len(cs) + 1, position |-> 0]),
                             cars_amount - 1)

RECURSIVE append_cars(_, _)
append_cars(cs, cars_amount) ==
    IF cars_amount <= 0 THEN cs
    ELSE append_cars(Append(cs, [car_id |-> new_car_id(cs), position |-> 0]), cars_amount - 1)

RECURSIVE append_zeros(_, _)
append_zeros(ws, cars_amount) ==
    IF cars_amount <= 0 THEN ws ELSE append_zeros(Append(ws, 0), cars_amount - 1)

take_edge_flow_only(e, people_amount) == [e EXCEPT !.flow = @ + people_amount]

take_edge(e, people_amount) ==
    [e EXCEPT !.flow = @ + people_amount, !.current_capacity = @ - people_amount]

capacity_exceeded_at_zero(e) == e.current_capacity <= 0

capacity_exceeded(e) == e.current_capacity < 0

\* the raise of line 55: the edge keeps what lines 52-53 did to it
raise_before_taking(g, taken, u, v, i) ==
    [g EXCEPT !.err = "ValueError", !.at = <<u, v>>, !.i = i]

\* as if lines 57-58 came before the check
raise_after_node_update(g, taken, u, v, i) ==
    LET people_amount == taken[<<u, v>>].flow - g.edges[<<u, v>>].flow
    IN  [g EXCEPT !.edges = taken, !.err = "ValueError", !.at = <<u, v>>, !.i = i,
                  !.nodes[u].people = @ - people_amount,
                  !.nodes[v].people = @ + people_amount]

raise_capacity_exceeded(g, taken, u, v, i) ==
    [g EXCEPT !.edges = taken, !.err = "ValueError", !.at = <<u, v>>, !.i = i]

\* the loop of move_resources from index i on; g holds the graph and the history
RECURSIVE move_from(_, _, _, _, _)
move_from(g, path, i, people_amount, cars_amount) ==
    IF i > Len(path) - 1 THEN [g EXCEPT !.err = "none"]
    ELSE
        LET u == path[i]
            v == path[i + 1]
        IN  IF <<u, v>> \notin DOMAIN g.edges
            THEN [g EXCEPT !.err = "KeyError", !.at = <<u, v>>, !.i = i]
            ELSE
                LET taken == [g.edges EXCEPT ![<<u, v>>] = take_edge(@, people_amount)]
                IN  IF capacity_exceeded(taken[<<u, v>>])
                    THEN raise_capacity_exceeded(g, taken, u, v, i)
                    ELSE
                        LET left == update_resource_level(g.nodes, u, -people_amount, -cars_amount)
                            arrived == update_resource_level(left, v, people_amount, cars_amount)
                            loaded == [taken EXCEPT ![<<u, v>>].cars = append_cars(@, cars_amount)]
                        IN  move_from([g EXCEPT !.nodes = arrived,
                                                !.edges = loaded,
                                                !.moved[<<u, v>>] = @ + people_amount,
                                                !.waited[<<u, v>>] = append_zeros(@, cars_amount)],
                                      path, i + 1, people_amount, cars_amount)

move_resources(path, people_amount, cars_amount) ==
    LET g == move_from([nodes |-> nodes, edges |-> edges, moved |-> moved, waited |-> waited,
                        err |-> "none", at |-> <<>>, i |-> 0],
                       path, 1, people_amount, cars_amount)
    IN  /\ nodes' = g.nodes
        /\ edges' = g.edges
        /\ moved' = g.moved
        /\ waited' = g.waited
        /\ last' = Call("move_resources",
                        [NoArgs EXCEPT !.path = path, !.people_amount = people_amount,
                                       !.cars_amount = cars_amount],
                        g.err, g.at, g.i)

(* update_car_positions *)
advance_unclamped(car, distance, travel_time, time_elapsed) ==
    [car EXCEPT !.position =
        FloatAdd(@, FloatMul(FloatDiv(distance * One, travel_time), time_elapsed))]

advance(car, distance, travel_time, time_elapsed) ==
    LET position == FloatAdd(car.position,
                             FloatMul(FloatDiv(distance * One, travel_time), time_elapsed))
    IN  [car EXCEPT !.position = IF position >= distance * One THEN distance * One ELSE position]

update_car_positions(es, time_elapsed) ==
    [e \in DOMAIN es |->
        [es[e] EXCEPT !.cars =
            [k \in 1 .. Len(es[e].cars) |->
                advance(es[e].cars[k], es[e].distance, es[e].travel_time, time_elapsed)]]]

(* reset_flows *)
reset_edge_keeping_capacity(e) == [e EXCEPT !.flow = 0, !.cars = <<>>]

reset_edge_keeping_cars(e) == [e EXCEPT !.flow = 0, !.current_capacity = e.max_capacity]

reset_edge(e) == [e EXCEPT !.flow = 0, !.current_capacity = e.max_capacity, !.cars = <<>>]

reset_flows(es) == [e \in DOMAIN es |-> reset_edge(es[e])]

(* get_car_positions *)
get_car_positions(es) ==
    [e \in DOMAIN es |->
        [k \in 1 .. Len(es[e].cars) |-> <<es[e].cars[k].car_id, es[e].cars[k].position>>]]

-----------------------------------------------------------------------------
(* The calls *)
MoveResources(paths, cars_amounts) ==
    /\ ops < MaxOps
    /\ \E path \in paths, people_amount \in PeopleAmounts, cars_amount \in cars_amounts :
           move_resources(path, people_amount, cars_amount)
    /\ ops' = ops + 1

UpdateResourceLevelWith(people_amounts, cars_amounts) ==
    /\ ops < MaxOps
    /\ \E node \in NodeIds, people_amount \in people_amounts, cars_amount \in cars_amounts :
           /\ IF node \in DOMAIN nodes
              THEN /\ nodes' = update_resource_level(nodes, node, people_amount, cars_amount)
                   /\ last' = Call("update_resource_level",
                                   [NoArgs EXCEPT !.node = node, !.people_amount = people_amount,
                                                  !.cars_amount = cars_amount],
                                   "none", <<>>, 0)
              ELSE /\ nodes' = nodes
                   /\ last' = Call("update_resource_level",
                                   [NoArgs EXCEPT !.node = node, !.people_amount = people_amount,
                                                  !.cars_amount = cars_amount],
                                   "KeyError", <<>>, 0)
    /\ ops' = ops + 1
    /\ UNCHANGED <<edges, moved, waited>>

UpdateResourceLevel == UpdateResourceLevelWith(Deltas, {0})

AdjustEdgeCapacities ==
    /\ ops < MaxOps
    /\ edges' = adjust_edge_capacities(edges)
    /\ last' = Call("adjust_edge_capacities", NoArgs, "none", <<>>, 0)
    /\ ops' = ops + 1
    /\ UNCHANGED <<nodes, moved, waited>>

UpdateCarPositions ==
    /\ ops < MaxOps
    /\ \E time_elapsed \in TimesElapsed :
           /\ edges' = update_car_positions(edges, time_elapsed)
           /\ waited' = [e \in DOMAIN waited |->
                            [k \in 1 .. Len(waited[e]) |-> waited[e][k] + time_elapsed]]
           /\ last' = Call("update_car_positions", [NoArgs EXCEPT !.time_elapsed = time_elapsed],
                           "none", <<>>, 0)
    /\ ops' = ops + 1
    /\ UNCHANGED <<nodes, moved>>

ResetFlows ==
    /\ ops < MaxOps
    /\ edges' = reset_flows(edges)
    /\ moved' = [e \in DOMAIN moved |-> 0]
    /\ waited' = [e \in DOMAIN waited |-> <<>>]
    /\ last' = Call("reset_flows", NoArgs, "none", <<>>, 0)
    /\ ops' = ops + 1
    /\ UNCHANGED nodes

Next ==
    \/ MoveResources(ShortPaths, CarsAmounts)
    \/ UpdateResourceLevel
    \/ AdjustEdgeCapacities
    \/ UpdateCarPositions
    \/ ResetFlows

Spec == Init /\ [][Next]_vars

(* Behaviours of at most two move_resources calls: an optional first call along
   one edge without cars, then a call along any path. *)
FirstMove ==
    /\ ops = 0
    /\ MoveResources(ShortPaths, {0})

AnyMove ==
    /\ ops = 0 \/ (ops = 1 /\ Len(last.args.path) = 2 /\ last.args.cars_amount = 0)
    /\ MoveResources(Paths, {0, MaxCars})

NextMove == FirstMove \/ AnyMove

SpecMove == Init /\ [][NextMove]_vars

(* Behaviours of update_resource_level calls with signed people and cars
   amounts, after an optional move along one edge. *)
UpdateLevels == UpdateResourceLevelWith(Deltas, CarsDeltas)

NextUpdate == FirstMove \/ UpdateLevels

SpecUpdate == Init /\ [][NextUpdate]_vars

(* Behaviours of at most two calls: those of SpecMove, and any other call as
   the first or the second call. *)
OtherCall ==
    /\ ops <= 1
    /\ \/ UpdateResourceLevel
       \/ AdjustEdgeCapacities
       \/ UpdateCarPositions
       \/ ResetFlows

NextCalls == FirstMove \/ AnyMove \/ OtherCall

SpecCalls == Init /\ [][NextCalls]_vars

(* The constructor, called with any node count from -1 up and any totals.  With
   x = 0 line 17 divides by zero and no object is returned; with x < 0 range(x)
   is empty, the divisions succeed and an object with an empty graph is returned. *)
InitNew ==
    /\ nodes = <<>>
    /\ edges = <<>>
    /\ last = Call("new", NoArgs, "none", <<>>, 0)
    /\ ops = 0
    /\ moved = <<>>
    /\ waited = <<>>

Construct ==
    /\ last.op = "new"
    /\ \E x \in -1 .. MaxNodes, total_people \in 0 .. MaxTotal, total_cars \in 0 .. MaxTotal,
          seed \in 0 .. MaxDistance - 1 :
           LET args == [NoArgs EXCEPT !.x = x, !.y = total_people, !.z = total_cars]
           IN  IF x = 0
               THEN /\ last' = Call("__init__", args, "ZeroDivisionError", <<>>, 0)
                    /\ UNCHANGED <<nodes, edges, moved, waited>>
               ELSE /\ nodes' = initialize_nodes_with(x, total_people, total_cars)
                    /\ edges' = initialize_edges(x, seed)
                    /\ moved' = [e \in EdgeSet(x) |-> 0]
                    /\ waited' = [e \in EdgeSet(x) |-> <<>>]
                    /\ last' = Call("__init__", args, "none", <<>>, 0)
    /\ UNCHANGED ops

SpecConstruct == InitNew /\ [][Construct]_vars

-----------------------------------------------------------------------------
(* Vocabulary of the properties.  In an action formula the unprimed variables
   are the graph before the call and last' is the call and its outcome. *)
Pair(path, k) == <<path[k], path[k + 1]>>
Steps(path) == 1 .. Len(path) - 1
\* how often edge e is taken among the first k steps of path
Occ(path, e, k) == Cardinality({j \in 1 .. k : j \in Steps(path) /\ Pair(path, j) = e})
\* steps among the first k that enter / leave node n
Entering(path, n, k) == Cardinality({j \in 1 .. k : j \in Steps(path) /\ path[j + 1] = n})
Leaving(path, n, k) == Cardinality({j \in 1 .. k : j \in Steps(path) /\ path[j] = n})
AllEdges(path) == \A k \in Steps(path) : Pair(path, k) \in DOMAIN edges
Min(S) == CHOOSE k \in S : \A j \in S : k <= j
Moved == last'.op = "move_resources"
Succeeded == last'.err = "none"
Fresh(e) == e.flow = 0 /\ e.current_capacity = e.max_capacity /\ e.cars = <<>>
\* the cars of after are those of before followed by n new cars at position 0
Appended(before, after, n) ==
    /\ Len(after) = Len(before) + n
    /\ \A k \in 1 .. Len(before) : after[k] = before[k]
    /\ \A k \in Len(before) + 1 .. Len(after) : after[k].position = 0

(* C1 (as claimed): right after a move_resources call with people_amount >= 0
   that raised nothing, every edge has current_capacity >= 0. *)
C1_NoNegativeCapacityAfterSuccess ==
    (last.op = "move_resources" /\ last.err = "none") =>
        \A e \in DOMAIN edges : edges[e].current_capacity >= 0

(* C2: on a path whose steps are all edges, move_resources raises the capacity
   error exactly when some step leaves its edge below 0, counting what earlier
   steps of the same call took; the error names the first such step in path
   order, the steps up to it are the only ones applied to flow, and with no
   such step the call succeeds. *)
C2_FirstExceededEdge ==
    [][(Moved /\ AllEdges(last'.args.path)) =>
        LET path == last'.args.path
            a == last'.args.people_amount
            bad == {k \in Steps(path) :
                      edges[Pair(path, k)].current_capacity
                          - a * Occ(path, Pair(path, k), k) < 0}
        IN  IF bad = {}
            THEN /\ Succeeded
                 /\ \A e \in DOMAIN edges :
                        edges'[e].flow = edges[e].flow + a * Occ(path, e, Len(path))
            ELSE /\ last'.err = "ValueError"
                 /\ last'.i = Min(bad)
                 /\ last'.at = Pair(path, Min(bad))
                 /\ \A e \in DOMAIN edges :
                        edges'[e].flow = edges[e].flow + a * Occ(path, e, Min(bad))]_vars

\* a call on a fresh graph failed at its third step, on the edge its first step had taken
C2_Witness ==
    /\ ops = 1
    /\ last.op = "move_resources"
    /\ last.err = "ValueError"
    /\ last.i = 3
    /\ last.at = Pair(last.args.path, 1)
    /\ last.args.people_amount <= node_edge

(* C3: when move_resources raises the capacity error at step k nothing is
   rolled back: the steps before k stay applied to the edges (flow, capacity,
   appended cars) and to both end nodes (people, cars), and the failing edge
   keeps the people_amount added to flow and taken from current_capacity,
   which is left negative. *)
C3_NothingRolledBack ==
    [][(Moved /\ last'.err = "ValueError") =>
        LET path == last'.args.path
            a == last'.args.people_amount
            c == last'.args.cars_amount
            k == last'.i
        IN  /\ \A e \in DOMAIN edges :
                /\ edges'[e].flow = edges[e].flow + a * Occ(path, e, k)
                /\ edges'[e].current_capacity = edges[e].current_capacity - a * Occ(path, e, k)
                /\ Appended(edges[e].cars, edges'[e].cars, c * Occ(path, e, k - 1))
            /\ \A n \in DOMAIN nodes :
                /\ nodes'[n].people =
                       nodes[n].people + a * (Entering(path, n, k - 1) - Leaving(path, n, k - 1))
                /\ nodes'[n].cars =
                       nodes[n].cars + c * (Entering(path, n, k - 1) - Leaving(path, n, k - 1))
            /\ edges'[last'.at].current_capacity < 0]_vars

\* a call that moved cars failed at a step after its first
C3_Witness ==
    /\ last.op = "move_resources"
    /\ last.err = "ValueError"
    /\ last.i >= 2
    /\ last.args.cars_amount > 0
    /\ edges[last.at].current_capacity < 0
    /\ \E e \in DOMAIN edges : e # last.at /\ Len(edges[e].cars) > 0

(* C4: when move_resources(path, a, c) succeeds, an edge taken k times by the
   path has flow + k*a, current_capacity - k*a and k*c new cars at position 0
   after the cars it had; an edge the path does not take is unchanged.  On a
   fresh graph with edge capacity 30, path [0, 1, 2] with a = 10 leaves edges
   (0, 1) and (1, 2) with flow 10 and current_capacity 20. *)
C4_SuccessfulMove ==
    [][(Moved /\ Succeeded) =>
        LET path == last'.args.path
            a == last'.args.people_amount
            c == last'.args.cars_amount
        IN  /\ \A e \in DOMAIN edges :
                LET k == Occ(path, e, Len(path))
                IN  /\ edges'[e].flow = edges[e].flow + k * a
                    /\ edges'[e].current_capacity = edges[e].current_capacity - k * a
                    /\ Appended(edges[e].cars, edges'[e].cars, k * c)
                    /\ k = 0 => edges'[e] = edges[e]
            /\ (/\ path = <<0, 1, 2>>
                /\ a = 10
                /\ \A e \in DOMAIN edges : Fresh(edges[e]) /\ edges[e].max_capacity = 30)
                   => \A e \in {<<0, 1>>, <<1, 2>>} :
                          edges'[e].flow = 10 /\ edges'[e].current_capacity = 20]_vars

\* a successful call took one edge twice and left cars on it
C4_Witness ==
    /\ last.op = "move_resources"
    /\ last.err = "none"
    /\ last.args.people_amount > 0
    /\ last.args.cars_amount > 0
    /\ \E e \in DOMAIN edges :
           /\ Occ(last.args.path, e, Len(last.args.path)) = 2
           /\ edges[e].flow = 2 * last.args.people_amount
           /\ Len(edges[e].cars) = 2 * last.args.cars_amount

(* C5: in every reachable state every car on every edge has
   0 <= position <= distance of its edge. *)
C5_PositionWithinEdge ==
    \A e \in DOMAIN edges : \A k \in 1 .. Len(edges[e].cars) :
        /\ 0 <= edges[e].cars[k].position
        /\ edges[e].cars[k].position <= edges[e].distance * One

\* one car under way and one clamped at the end of its edge
C5_Witness ==
    /\ \E e \in DOMAIN edges : \E k \in 1 .. Len(edges[e].cars) :
           0 < edges[e].cars[k].position /\ edges[e].cars[k].position < edges[e].distance * One
    /\ \E e \in DOMAIN edges : \E k \in 1 .. Len(edges[e].cars) :
           edges[e].cars[k].position = edges[e].distance * One /\ waited[e][k] > 0

(* C6 (as claimed): in every reachable state the flow of an edge is the number
   of people transferred from its source node to its target node by
   move_resources steps since the last reset_flows. *)
C6_FlowIsPeopleMoved ==
    \A e \in DOMAIN edges : edges[e].flow = moved[e]

(* C7: in every reachable state the car at index k of an edge's list has
   car_id = k: ids run from 1 per edge, over several calls, and again from 1
   after reset_flows. *)
C7_CarIdIsIndex ==
    \A e \in DOMAIN edges : \A k \in 1 .. Len(edges[e].cars) : edges[e].cars[k].car_id = k

\* cars of two calls on one edge: the later ones have not waited as long
C7_Witness ==
    \E e \in DOMAIN edges :
        /\ Len(edges[e].cars) >= 3
        /\ waited[e][1] > waited[e][Len(edges[e].cars)]

(* C8 (as claimed): a car whose edge has seen time_elapsed values summing to at
   least travel_time since the car was appended is at position = distance. *)
C8_ArrivedAfterTravelTime ==
    \A e \in DOMAIN edges : \A k \in 1 .. Len(edges[e].cars) :
        waited[e][k] >= edges[e].travel_time =>
            edges[e].cars[k].position = edges[e].distance * One

(* C9: adjust_edge_capacities sets current_capacity = max_capacity - flow on
   every edge and changes nothing else, and a second call changes nothing. *)
C9_AdjustRecomputesCapacity ==
    [][last'.op = "adjust_edge_capacities" =>
        /\ DOMAIN edges' = DOMAIN edges
        /\ \A e \in DOMAIN edges :
               edges'[e] = [edges[e] EXCEPT
                               !.current_capacity = edges[e].max_capacity - edges[e].flow]
        /\ nodes' = nodes
        /\ adjust_edge_capacities(edges') = edges']_vars

\* adjusted with flow on an edge
C9_Witness ==
    /\ last.op = "adjust_edge_capacities"
    /\ \E e \in DOMAIN edges :
           edges[e].flow > 0 /\ edges[e].current_capacity = edges[e].max_capacity - edges[e].flow

(* C10: reset_flows leaves every edge with flow = 0, current_capacity =
   max_capacity and no cars, so that get_car_positions is empty for every edge
   and adjust_edge_capacities then keeps current_capacity = max_capacity; the
   nodes and the edges' max_capacity, distance and travel_time are unchanged. *)
C10_ResetFlows ==
    [][last'.op = "reset_flows" =>
        /\ DOMAIN edges' = DOMAIN edges
        /\ \A e \in DOMAIN edges :
               /\ edges'[e].flow = 0
               /\ edges'[e].current_capacity = edges[e].max_capacity
               /\ edges'[e].cars = <<>>
               /\ edges'[e].max_capacity = edges[e].max_capacity
               /\ edges'[e].distance = edges[e].distance
               /\ edges'[e].travel_time = edges[e].travel_time
               /\ get_car_positions(edges')[e] = <<>>
               /\ adjust_edge_capacities(edges')[e].current_capacity = edges[e].max_capacity
        /\ nodes' = nodes]_vars

\* reset after a move that had changed the nodes
C10_Witness ==
    /\ last.op = "reset_flows"
    /\ \E n \in DOMAIN nodes : nodes[n].people < y \div Cardinality(DOMAIN nodes)
    /\ \A e \in DOMAIN edges : Fresh(edges[e])

\* the sum of f over the set S of its arguments
RECURSIVE SumOver(_, _)
SumOver(f, S) ==
    IF S = {} THEN 0
    ELSE LET n == CHOOSE n \in S : TRUE IN f[n] + SumOver(f, S \ {n})
TotalPeople(ns) == SumOver([n \in DOMAIN ns |-> ns[n].people], DOMAIN ns)
TotalCars(ns) == SumOver([n \in DOMAIN ns |-> ns[n].cars], DOMAIN ns)
\* floor(a / b) for a >= 0 and b >= 1: the q with q * b <= a < (q + 1) * b
Floor(a, b) == CHOOSE q \in 0 .. a : q * b <= a /\ a < (q + 1) * b

(* C11: the constructor called with x >= 1 nodes and totals y, z >= 0 returns a
   graph with exactly the nodes 0 .. x-1, each with floor(y / x) people and
   floor(z / x) cars (so x * floor(y / x) people in all), exactly the edges
   (i, j) with i # j, and every edge with flow 0, current_capacity =
   max_capacity = node_edge and no cars. *)
C11_Construct ==
    [][(last'.op = "__init__" /\ last'.args.x >= 1) =>
        LET x == last'.args.x
        IN  /\ last'.err = "none"
            /\ DOMAIN nodes' = 0 .. x - 1
            /\ Cardinality(DOMAIN nodes') = x
            /\ \A n \in DOMAIN nodes' :
                   /\ nodes'[n].people = Floor(last'.args.y, x)
                   /\ nodes'[n].cars = Floor(last'.args.z, x)
            /\ TotalPeople(nodes') = x * Floor(last'.args.y, x)
            /\ DOMAIN edges' = {e \in (DOMAIN nodes') \X (DOMAIN nodes') : e[1] # e[2]}
            /\ Cardinality(DOMAIN edges') = x * (x - 1)
            /\ \A e \in DOMAIN edges' :
                   Fresh(edges'[e]) /\ edges'[e].max_capacity = node_edge]_vars

\* three nodes built from totals that do not divide evenly
C11_Witness ==
    /\ last.op = "__init__"
    /\ last.args.x = 3
    /\ last.args.y = 7
    /\ TotalPeople(nodes) = 6
    /\ Cardinality(DOMAIN edges) = 6

(* C12 (as claimed): the constructor called with x <= 0 raises an error and
   returns no graph. *)
C12_NonPositiveNodeCountRejected ==
    [][(last'.op = "__init__" /\ last'.args.x <= 0) =>
        (last'.err # "none" /\ nodes' = nodes /\ edges' = edges)]_vars

\* the first step of path that is no edge of the graph (0 if every step is an edge)
FirstMissing(path) ==
    IF AllEdges(path) THEN 0
    ELSE Min({k \in Steps(path) : Pair(path, k) \notin DOMAIN edges})
\* some step among the first k of path leaves its edge below 0
Exceeds(path, a, k) ==
    \E j \in 1 .. k :
        edges[Pair(path, j)].current_capacity - a * Occ(path, Pair(path, j), j) < 0

(* C13: move_resources raises a missing-edge error (KeyError) at the first
   step (u, v) of the path that is no edge of the graph - u = v, or an id that
   is no node - unless an earlier step already exceeded a capacity; that step
   changes no edge and no node, no later step is applied, and the steps before
   it stay applied. *)
C13_MissingEdge ==
    [][(Moved /\ ~AllEdges(last'.args.path)) =>
        LET path == last'.args.path
            a == last'.args.people_amount
            c == last'.args.cars_amount
            k == FirstMissing(path)
        IN  ~Exceeds(path, a, k - 1) =>
                /\ last'.err = "KeyError"
                /\ last'.i = k
                /\ last'.at = Pair(path, k)
                /\ \A e \in DOMAIN edges :
                    /\ edges'[e].flow = edges[e].flow + a * Occ(path, e, k - 1)
                    /\ edges'[e].current_capacity =
                           edges[e].current_capacity - a * Occ(path, e, k - 1)
                    /\ Appended(edges[e].cars, edges'[e].cars, c * Occ(path, e, k - 1))
                /\ \A n \in DOMAIN nodes :
                    /\ nodes'[n].people = nodes[n].people
                           + a * (Entering(path, n, k - 1) - Leaving(path, n, k - 1))
                    /\ nodes'[n].cars = nodes[n].cars
                           + c * (Entering(path, n, k - 1) - Leaving(path, n, k - 1))]_vars

\* a call stopped at a self-loop step after steps that moved people and cars
C13_Witness ==
    /\ last.op = "move_resources"
    /\ last.err = "KeyError"
    /\ last.i >= 2
    /\ last.at[1] = last.at[2]
    /\ last.args.people_amount > 0
    /\ \E e \in DOMAIN edges : edges[e].flow > 0 /\ Len(edges[e].cars) > 0

(* C14: update_resource_level on a node of the graph adds the signed amounts
   to that node's people and cars, beyond max_capacity too, and changes no
   other node and no edge; on an id that is no node it raises an error
   (KeyError) and changes nothing. *)
C14_UpdateResourceLevel ==
    [][last'.op = "update_resource_level" =>
        LET node == last'.args.node
        IN  /\ edges' = edges
            /\ IF node \in DOMAIN nodes
               THEN /\ last'.err = "none"
                    /\ DOMAIN nodes' = DOMAIN nodes
                    /\ nodes'[node].people = nodes[node].people + last'.args.people_amount
                    /\ nodes'[node].cars = nodes[node].cars + last'.args.cars_amount
                    /\ nodes'[node].max_capacity = nodes[node].max_capacity
                    /\ \A n \in DOMAIN nodes \ {node} : nodes'[n] = nodes[n]
               ELSE /\ last'.err = "KeyError"
                    /\ nodes' = nodes]_vars

\* a node raised above its max_capacity, with cars added as well
C14_Witness ==
    /\ last.op = "update_resource_level"
    /\ last.err = "none"
    /\ last.args.people_amount > 0
    /\ last.args.cars_amount > 0
    /\ nodes[last.args.node].people > nodes[last.args.node].max_capacity
    /\ nodes[last.args.node].people - last.args.people_amount <= nodes[last.args.node].max_capacity

(* C15 (as claimed): when a step on (u, v) raises the capacity error, u's
   people and cars have already been decreased and v's increased by the
   amounts of that step. *)
C15_NodesChangedBeforeCheck ==
    [][(Moved /\ last'.err = "ValueError") =>
        LET path == last'.args.path
            k == last'.i
        IN  \A n \in {last'.at[1], last'.at[2]} :
                /\ nodes'[n].people = nodes[n].people + last'.args.people_amount
                       * (Entering(path, n, k) - Leaving(path, n, k))
                /\ nodes'[n].cars = nodes[n].cars + last'.args.cars_amount
                       * (Entering(path, n, k) - Leaving(path, n, k))]_vars

(* C15 (amended): in a step on (u, v), flow and current_capacity are changed
   before the capacity check and the node counts after it: when the step
   raises the capacity error the edge keeps the change of that step, and u's
   and v's people and cars are what the steps before it left. *)
C15_EdgeChangedNodesNot ==
    [][(Moved /\ last'.err = "ValueError") =>
        LET path == last'.args.path
            k == last'.i
            e == last'.at
        IN  /\ e = Pair(path, k)
            /\ edges'[e].flow = edges[e].flow + last'.args.people_amount * Occ(path, e, k)
            /\ edges'[e].current_capacity =
                   edges[e].current_capacity - last'.args.people_amount * Occ(path, e, k)
            /\ \A n \in {e[1], e[2]} :
                /\ nodes'[n].people = nodes[n].people + last'.args.people_amount
                       * (Entering(path, n, k - 1) - Leaving(path, n, k - 1))
                /\ nodes'[n].cars = nodes[n].cars + last'.args.cars_amount
                       * (Entering(path, n, k - 1) - Leaving(path, n, k - 1))]_vars

\* the first call failed at its first step: the edge has the flow, the nodes have what they had
C15_Witness ==
    /\ ops = 1
    /\ last.op = "move_resources"
    /\ last.err = "ValueError"
    /\ last.i = 1
    /\ last.args.people_amount > 0
    /\ last.args.cars_amount > 0
    /\ edges[last.at].flow = last.args.people_amount
    /\ \A n \in DOMAIN nodes :
           nodes[n] = initialize_nodes(Cardinality(DOMAIN nodes))[n]

(* C16: after a successful move_resources(path, a, c) every node's people
   changed by a * (steps entering it - steps leaving it) and its cars by c *
   the same; on a path of distinct nodes the first node lost a and c, the last
   gained them and the nodes in between are as before. *)
C16_NodeCountsAfterMove ==
    [][(Moved /\ Succeeded) =>
        LET path == last'.args.path
            a == last'.args.people_amount
            c == last'.args.cars_amount
            len == Len(path)
            net(n) == Entering(path, n, len) - Leaving(path, n, len)
        IN  /\ \A n \in DOMAIN nodes :
                /\ nodes'[n].people = nodes[n].people + a * net(n)
                /\ nodes'[n].cars = nodes[n].cars + c * net(n)
            /\ (\A j, k \in 1 .. len : j # k => path[j] # path[k]) =>
                /\ nodes'[path[1]].people = nodes[path[1]].people - a
                /\ nodes'[path[1]].cars = nodes[path[1]].cars - c
                /\ nodes'[path[len]].people = nodes[path[len]].people + a
                /\ nodes'[path[len]].cars = nodes[path[len]].cars + c
                /\ \A n \in DOMAIN nodes \ {path[1], path[len]} : nodes'[n] = nodes[n]]_vars

\* the first call went through three distinct nodes; the middle one has what it had
C16_Witness ==
    /\ ops = 1
    /\ last.op = "move_resources"
    /\ last.err = "none"
    /\ Len(last.args.path) = 3
    /\ last.args.path[1] # last.args.path[3]
    /\ last.args.people_amount > 0
    /\ last.args.cars_amount > 0
    /\ nodes[last.args.path[2]] = initialize_nodes(Cardinality(DOMAIN nodes))[last.args.path[2]]
    /\ nodes[last.args.path[3]].people > nodes[last.args.path[2]].people

(* C17: move_resources does not look at the node counts: a call whose amounts
   exceed what its first node holds succeeds whenever the edge capacities
   allow, and the node is left with the plain difference, which can be
   negative. *)
C17_NoNodeBoundsCheck ==
    [][(/\ Moved
        /\ AllEdges(last'.args.path)
        /\ ~Exceeds(last'.args.path, last'.args.people_amount, Len(last'.args.path) - 1)
        /\ \/ nodes[last'.args.path[1]].people < last'.args.people_amount
           \/ nodes[last'.args.path[1]].cars < last'.args.cars_amount) =>
        LET path == last'.args.path
            src == path[1]
            net == Entering(path, src, Len(path)) - Leaving(path, src, Len(path))
        IN  /\ Succeeded
            /\ nodes'[src].people = nodes[src].people + last'.args.people_amount * net
            /\ nodes'[src].cars = nodes[src].cars + last'.args.cars_amount * net]_vars

\* a node with a negative people count after a successful call
C17_Witness ==
    /\ last.op = "move_resources"
    /\ last.err = "none"
    /\ nodes[last.args.path[1]].people < 0

(* C18: in every reachable state, also after a failed move_resources, every
   edge has current_capacity = max_capacity - flow, so adjust_edge_capacities
   changes nothing. *)
C18_CapacityIsMaxMinusFlow ==
    /\ \A e \in DOMAIN edges :
           edges[e].current_capacity = edges[e].max_capacity - edges[e].flow
    /\ adjust_edge_capacities(edges) = edges

\* after a failed call, with its edge below 0
C18_Witness ==
    /\ last.op = "move_resources"
    /\ last.err = "ValueError"
    /\ edges[last.at].current_capacity < 0
    /\ edges[last.at].flow > edges[last.at].max_capacity

(* C19: the totals of people and of cars over all nodes are the same before
   and after every move_resources call, failed or not, and every
   adjust_edge_capacities, update_car_positions and reset_flows call; an
   update_resource_level call on a node changes them by its amounts. *)
C19_TotalsConserved ==
    [][IF last'.op = "update_resource_level" /\ last'.err = "none"
       THEN /\ TotalPeople(nodes') = TotalPeople(nodes) + last'.args.people_amount
            /\ TotalCars(nodes') = TotalCars(nodes) + last'.args.cars_amount
       ELSE /\ TotalPeople(nodes') = TotalPeople(nodes)
            /\ TotalCars(nodes') = TotalCars(nodes)]_vars

\* a call that failed at a later step, after moving people and cars between nodes
C19_Witness ==
    /\ last.op = "move_resources"
    /\ last.err = "ValueError"
    /\ last.i >= 2
    /\ last.args.people_amount > 0
    /\ last.args.cars_amount > 0
    /\ nodes # initialize_nodes(Cardinality(DOMAIN nodes))
    /\ TotalPeople(nodes) = TotalPeople(initialize_nodes(Cardinality(DOMAIN nodes)))
    /\ TotalCars(nodes) = TotalCars(initialize_nodes(Cardinality(DOMAIN nodes)))

(* C20: an edge left with current_capacity < 0 by a failed move_resources
   stays below 0 through every call but reset_flows, adjust_edge_capacities
   included, and every move_resources call with people_amount >= 0 whose path
   takes that edge fails at that step or before it. *)
C20_ExceededEdgeStaysBlocked ==
    [][\A e \in DOMAIN edges : edges[e].current_capacity < 0 =>
        /\ last'.op # "reset_flows" => edges'[e].current_capacity < 0
        /\ (Moved /\ \E k \in Steps(last'.args.path) : Pair(last'.args.path, k) = e) =>
               /\ last'.err # "none"
               /\ last'.i <= Min({k \in Steps(last'.args.path) : Pair(last'.args.path, k) = e})]_vars

\* a call moving nobody failed on an edge that an earlier call had left below 0
C20_Witness ==
    /\ last.op = "move_resources"
    /\ last.err = "ValueError"
    /\ last.args.people_amount = 0
    /\ edges[last.at].current_capacity < 0

=============================================================================
